---------------------------- MODULE Spec2Model ----------------------------
(***************************************************************************)
(* A model of the gettiles tile/metatile export pipeline:                  *)
(*   tile.py          Tile (x, y, z, y_tms) and its rectangle              *)
(*   tileset.py       TileSet: count_tiles, tileset_ranges, tileset_size,  *)
(*                    count_metatiles, set_writer, render_tile, run        *)
(*   writers.py       DirectoryWriter, ZipWriter, MBTilesWriter            *)
(*   tilingthread.py  TilingThread.run and TilingThread.stop               *)
(*   get_tiles_processing_algorithm.py  processAlgorithm                   *)
(*                                                                         *)
(* Geography.  Tile.toPoint maps a tile corner to (longitude, latitude).   *)
(* Longitude is affine in the column and latitude is strictly decreasing   *)
(* in the row, so both axes are carried here in integer grid units: the    *)
(* world is Grid units wide and high, a point's first coordinate is its    *)
(* distance from the west edge and its second coordinate its distance from *)
(* the SOUTH edge (so that, like latitude, it decreases with the row).     *)
(* Grid is twice the number of tiles per side at the deepest zoom, so an   *)
(* extent edge can lie on any tile boundary (an even unit) or strictly     *)
(* inside any tile (an odd unit).                                          *)
(***************************************************************************)
EXTENDS Integers, Sequences, FiniteSets, TLC

\* Deepest zoom level explored.
MaxZoom == 2

\* Largest metatile side (rows or columns) explored.
MaxMeta == 4

\* Largest number of enumerated tiles of a job whose rendering is explored.
MaxTiles == 5

\* The width of the float significand (53 in binary64).
MantissaBits == 5

Pow2(n) == 2 ^ n

Grid == 2 * Pow2(MaxZoom)

Min(a, b) == IF a < b THEN a ELSE b

Max(a, b) == IF a > b THEN a ELSE b

Range(s) == {s[i] : i \in DOMAIN s}

(***************************************************************************)
(* tile.py                                                                 *)
(***************************************************************************)

\* Python floats are binary64: an integer value is held exactly when it fits
\* the significand and is otherwise rounded to the nearest representable
\* value, ties to the even significand.  The significand is 53 bits wide;
\* MantissaBits is the width used here, so that zoom levels on both sides of
\* it fit the integers of the model checker.
BitLen(n) == CHOOSE k \in 0..30 : (k = 0 \/ Pow2(k - 1) <= n) /\ n < Pow2(k)

fround(n) ==
    LET a == IF n < 0 THEN -n ELSE n
        e == Max(BitLen(a) - MantissaBits, 0)
        q == a \div Pow2(e)
        r == a % Pow2(e)
        up == 2 * r > Pow2(e) \/ (2 * r = Pow2(e) /\ q % 2 = 1)
        m == (IF up THEN q + 1 ELSE q) * Pow2(e)
    IN  IF a < Pow2(MantissaBits) THEN n
        ELSE IF n < 0 THEN -m ELSE m

\* Tile.__init__: y_tms = int(2.0**z - y - 1).  2.0**z is a float, y is
\* converted to float for the subtraction, each subtraction rounds, and int()
\* of the integral result is exact.
y_tms(y, z) == fround(fround(fround(Pow2(z)) - fround(y)) - 1)

Tile(x, y, z) == [x |-> x, y |-> y, z |-> z, y_tms |-> y_tms(y, z)]

\* Tile.toPoint: the top-left corner.  n = 2^z tiles per side; the longitude
\* x / n * 360 - 180 is west distance x * Grid / n, the latitude
\* atan(sinh(pi * (1 - 2y/n))) is south distance Grid - y * Grid / n.
toPoint(t) ==
    LET n == Pow2(t.z)
    IN  [x |-> (t.x * Grid) \div n, y |-> Grid - ((t.y * Grid) \div n)]

\* QgsRectangle(p1, p2): the constructor normalises, so min <= max on both axes.
QgsRectangle(p1, p2) ==
    [null |-> FALSE,
     xMin |-> Min(p1.x, p2.x), xMax |-> Max(p1.x, p2.x),
     yMin |-> Min(p1.y, p2.y), yMax |-> Max(p1.y, p2.y)]

\* The rectangle QgsRectangle.intersect returns when there is no overlap.
NullRectangle == [null |-> TRUE, xMin |-> 0, xMax |-> 0, yMin |-> 0, yMax |-> 0]

\* Tile.toRectangle: from this tile's corner to the corner of tile (x+1, y+1, z).
toRectangle(t) == QgsRectangle(toPoint(t), toPoint(Tile(t.x + 1, t.y + 1, t.z)))

\* QgsRectangle.intersects as called by count_tiles: closed rectangles, so
\* touching edges intersect; a null rectangle intersects nothing.
intersects_open(a, b) ==
    /\ ~a.null
    /\ ~b.null
    /\ Max(a.xMin, b.xMin) < Min(a.xMax, b.xMax)
    /\ Max(a.yMin, b.yMin) < Min(a.yMax, b.yMax)

intersects(a, b) ==
    /\ ~a.null
    /\ ~b.null
    /\ Max(a.xMin, b.xMin) <= Min(a.xMax, b.xMax)
    /\ Max(a.yMin, b.yMin) <= Min(a.yMax, b.yMax)

(***************************************************************************)
(* tileset.py: enumeration                                                 *)
(***************************************************************************)

\* TileSet.get_first_tile
get_first_tile == Tile(0, 0, 0)

\* The four children in the order of the nested loops of count_tiles:
\* x outer over 2x, 2x+1; y inner over 2y, 2y+1.
sub_tiles_one_column(t) ==
    << Tile(2 * t.x, 2 * t.y, t.z + 1), Tile(2 * t.x, 2 * t.y + 1, t.z + 1) >>

sub_tiles_row_major(t) ==
    << Tile(2 * t.x,     2 * t.y,     t.z + 1),
       Tile(2 * t.x + 1, 2 * t.y,     t.z + 1),
       Tile(2 * t.x,     2 * t.y + 1, t.z + 1),
       Tile(2 * t.x + 1, 2 * t.y + 1, t.z + 1) >>

sub_tiles(t) ==
    << Tile(2 * t.x,     2 * t.y,     t.z + 1),
       Tile(2 * t.x,     2 * t.y + 1, t.z + 1),
       Tile(2 * t.x + 1, 2 * t.y,     t.z + 1),
       Tile(2 * t.x + 1, 2 * t.y + 1, t.z + 1) >>

\* The pruning test of count_tiles.
pruned_never(ext, t) == FALSE

pruned(ext, t) == ~intersects(ext, toRectangle(t))

\* TileSet.count_tiles(tile) on a TileSet whose tiles list is acc: the tiles
\* list when the call returns.  The call only appends, so the list is acc
\* followed by the tile itself (when its zoom is in range) and by what the
\* calls on its children append, in the order of the loops.
RECURSIVE count_tiles(_, _, _, _, _)
count_tiles(acc, t, ext, minZ, maxZ) ==
    IF pruned(ext, t) THEN acc
    ELSE
      LET own == IF minZ <= t.z /\ t.z <= maxZ THEN << t >> ELSE << >>
          kids == sub_tiles(t)
          Sub[k \in Range(kids)] == count_tiles(<< >>, k, ext, minZ, maxZ)
          Below[i \in 0..Len(kids)] ==
              IF i = 0 THEN << >> ELSE Below[i - 1] \o Sub[kids[i]]
      IN  acc \o own \o (IF t.z < maxZ THEN Below[Len(kids)] ELSE << >>)

(***************************************************************************)
(* tileset.py: metatile grouping                                           *)
(***************************************************************************)

\* self.zoom_ranges = range(minZoom, maxZoom + 1)
zoom_ranges(minZ, maxZ) == minZ..maxZ

SetMin(S) == CHOOSE m \in S : \A n \in S : m <= n

SetMax(S) == CHOOSE m \in S : \A n \in S : m >= n

\* The per-zoom list built by tileset_ranges.
tiles_at(ts, z) == SelectSeq(ts, LAMBDA t : t.z = z)

\* tileset_ranges indexes sub_tiles[0] and sub_tiles[-1]: an empty per-zoom
\* list raises IndexError.
ranges_raises(ts, minZ, maxZ) ==
    \E z \in zoom_ranges(minZ, maxZ) : tiles_at(ts, z) = << >>

\* One zoom level of tileset_ranges: sorting by y (then by x) and taking the
\* first and last element yields ( row_min, row_max, col_min, col_max ).
zoom_range_of(ts, z) ==
    LET sub == Range(tiles_at(ts, z))
        ys == {t.y : t \in sub}
        xs == {t.x : t \in sub}
    IN  << SetMin(ys), SetMax(ys), SetMin(xs), SetMax(xs) >>

\* TileSet.tileset_ranges: self.ranges
tileset_ranges(ts, minZ, maxZ) ==
    [z \in zoom_ranges(minZ, maxZ) |-> zoom_range_of(ts, z)]

\* TileSet.tileset_size: self.sizes
tileset_size(rs) ==
    [z \in DOMAIN rs |->
        [rows |-> (rs[z][2] - rs[z][1]) + 1, cols |-> (rs[z][4] - rs[z][3]) + 1]]

\* TileSet.buffer_extent
buffer_extent(r) == << r[1] - 1, r[2] + 1, r[3] - 1, r[4] + 1 >>

\* Metatile(extents, z, buffered, self): the constructor's arguments.
Metatile(ext, z, buffered) == [extents |-> ext, z |-> z, buffered |-> buffered]

\* The padding of count_metatiles: set_range with row_max and col_max moved
\* up by the remainders of the spans.
padded_range(set_range, mrows, mcols) ==
    LET row_offset == ((set_range[2] + 1) - set_range[1]) % mrows
        col_offset == ((set_range[4] + 1) - set_range[3]) % mcols
    IN  << set_range[1],
           IF row_offset > 0 THEN set_range[2] + row_offset ELSE set_range[2],
           set_range[3],
           IF col_offset > 0 THEN set_range[4] + col_offset ELSE set_range[4] >>

\* The inner while loop of count_metatiles: one column step, rows walked
\* from row0 in steps of mrows while row_range[0] < set_range[1].
RECURSIVE row_walk(_, _, _, _, _, _, _)
row_walk(row0, col0, sr, z, mrows, mcols, buffer) ==
    IF row0 < sr[2]
    THEN LET e == << row0, row0 + mrows - 1, col0, col0 + mcols - 1 >>
             m == IF buffer THEN Metatile(buffer_extent(e), z, TRUE)
                            ELSE Metatile(e, z, FALSE)
         IN  << m >> \o row_walk(row0 + mrows, col0, sr, z, mrows, mcols, buffer)
    ELSE << >>

\* The outer while loop: columns walked from col0 in steps of mcols while
\* col_range[0] < set_range[3]; the row range is reset for every column.
RECURSIVE col_walk(_, _, _, _, _, _)
col_walk(col0, sr, z, mrows, mcols, buffer) ==
    IF col0 < sr[4]
    THEN row_walk(sr[1], col0, sr, z, mrows, mcols, buffer)
            \o col_walk(col0 + mcols, sr, z, mrows, mcols, buffer)
    ELSE << >>

\* The test "the metatile is bigger than the job extent at this zoom level".
covers_span(size, mrows, mcols) == mcols >= size.cols /\ mrows >= size.rows

\* One iteration of the zoom loop of count_metatiles.
metatiles_at(set_range, size, z, mrows, mcols, buffer) ==
    IF covers_span(size, mrows, mcols)
    THEN << Metatile(set_range, z, FALSE) >>
    ELSE col_walk(set_range[3], padded_range(set_range, mrows, mcols),
                  z, mrows, mcols, buffer)

\* TileSet.count_metatiles: the list returned, zoom levels in ascending order.
RECURSIVE count_metatiles(_, _, _, _, _, _, _)
count_metatiles(z, maxZ, rs, szs, mrows, mcols, buffer) ==
    IF z > maxZ THEN << >>
    ELSE metatiles_at(rs[z], szs[z], z, mrows, mcols, buffer)
            \o count_metatiles(z + 1, maxZ, rs, szs, mrows, mcols, buffer)

(***************************************************************************)
(* State                                                                   *)
(***************************************************************************)
VARIABLES
    \* how the job is entered: "algorithm" (processAlgorithm), "thread"
    \* (a TilingThread constructed and started by a caller), "tileset"
    \* (TileSet.run called directly, without a thread), "methods" (the
    \* TileSet methods called one by one)
    entry,
    \* the constructor arguments
    extents, minZoom, maxZoom, metatile, metatile_size, metatile_buffer,
    output, tmsArg, format,
    \* GetTilesProcessingAlgorithm
    algPc, feedback, workThread,
    \* TileSet fields
    mode, tmsConvention, tiles, ranges, sizes, metatiles, writer, temp_folder,
    \* the writer's backend: archive / database open, the temp folder
    \* (mkdtemp()/rootDir) on disk, the directory mkdtemp() made on disk
    writerOpen, tempDirExists, tempParentExists,
    \* TilingThread fields and the position of run()
    pc, idx, stopMe, s, interrupted, mutex,
    \* the controller's position in stop() and what run() had done when
    \* stop() set the flag
    stopPc, stopReq,
    \* everything observable the job did, in order: signals emitted, renders,
    \* writeTile calls, finalize calls
    log

cfgVars == << entry, extents, minZoom, maxZoom, metatile, metatile_size,
              metatile_buffer, output, tmsArg, format >>

algVars == << algPc, feedback, workThread >>

tsVars == << mode, tmsConvention, tiles, ranges, sizes, metatiles, writer,
             temp_folder >>

backendVars == << writerOpen, tempDirExists, tempParentExists >>

threadVars == << pc, idx, stopMe, s, interrupted, mutex >>

stopVars == << stopPc, stopReq >>

vars == << cfgVars, algVars, tsVars, backendVars, threadVars, stopVars, log >>

(***************************************************************************)
(* Inputs                                                                  *)
(***************************************************************************)

Coords == 0..Grid

Rect(x1, x2, y1, y2) ==
    [null |-> FALSE, xMin |-> x1, xMax |-> x2, yMin |-> y1, yMax |-> y2]

\* processAlgorithm clips the requested box to the world rectangle: the
\* extent is a rectangle inside the world, or null when the box misses it.
Extents ==
    {NullRectangle} \cup
    {Rect(x1, x2, y1, y2) : x1 \in Coords, x2 \in Coords, y1 \in Coords, y2 \in Coords}

ValidExtents == {e \in Extents : e.null \/ (e.xMin <= e.xMax /\ e.yMin <= e.yMax)}

Odd == {c \in Coords : c % 2 = 1}

\* Extents whose edges lie strictly inside tiles of the deepest zoom level.
InteriorExtents ==
    {e \in ValidExtents : e.null \/ ({e.xMin, e.xMax, e.yMin, e.yMax} \subseteq Odd)}

Zooms == 0..MaxZoom

\* The zoom levels of the tiles constructed on their own.
TileZooms == 0..(MantissaBits + 1)

MetaSizes == {[rows |-> r, cols |-> c] : r \in 1..MaxMeta, c \in 1..MaxMeta}

\* The kinds of destination path: an existing directory, or a path that is
\* not a directory, with its suffix.
Outputs ==
    {[isDir |-> d, suffix |-> x] :
        d \in BOOLEAN, x \in {"", "zip", "ZIP", "mbtiles", "MBTiles", "png"}}

DirOutput == [isDir |-> TRUE, suffix |-> ""]

(***************************************************************************)
(* tileset.py: TileSet.__init__                                            *)
(***************************************************************************)

\* The image formats a caller may pass (processAlgorithm passes 'PNG').
Formats == {"PNG", "jpg"}

\* str.lower() on the suffixes of Outputs and on the Formats.
lower(x) ==
    CASE x = "ZIP" -> "zip"
      [] x = "MBTiles" -> "mbtiles"
      [] x = "PNG" -> "png"
      [] OTHER -> x

\* The if / elif / elif of __init__: no branch assigns self.mode for any
\* other destination.
select_mode(out) ==
    IF out.isDir THEN "DIR"
    ELSE IF lower(out.suffix) = "zip" THEN "ZIP"
    ELSE IF lower(out.suffix) = "mbtiles" THEN "MBTILES"
    ELSE "unset"

\* self.tmsConvention after __init__: the argument, forced to True in
\* MBTILES mode.
tms_as_given(m, arg) == arg

tms_convention(m, arg) == IF m = "MBTILES" THEN TRUE ELSE arg

\* What is observable of a job, in order of occurrence: a signal emitted
\* (rangeChanged with its total as item, updateProgress, processFinished,
\* processInterrupted), a render of item number item, a writeTile call of
\* tile (x, y, z) stored under row while item was processed, a finalize call
\* (item = 1 when a temp folder was passed), a QDir().mkpath call.  A
\* writeTile or mkpath event also carries the path written or created.
NoPath == [base |-> "", root |-> "", z |-> 0, x |-> 0, row |-> 0, ext |-> ""]

Ev(e, item, z, x, y, row) ==
    [ev |-> e, item |-> item, z |-> z, x |-> x, y |-> y, row |-> row,
     path |-> NoPath]

Signal(name, n) == Ev(name, n, 0, 0, 0, 0)

\* The arguments of the job.
Params(e, ext, minZ, maxZ, meta, msize, mbuf, out, tms) ==
    /\ entry = e
    /\ extents = ext
    /\ minZoom = minZ
    /\ maxZoom = maxZ
    /\ metatile = meta
    /\ metatile_size = msize
    /\ metatile_buffer = mbuf
    /\ output = out
    /\ tmsArg = tms

\* TilingThread.__init__ and TileSet.__init__: the fields before run().
Fresh ==
    /\ tiles = << >>
    /\ ranges = << >>
    /\ sizes = << >>
    /\ metatiles = << >>
    /\ writer = "None"
    /\ temp_folder = "None"
    /\ writerOpen = FALSE
    /\ tempDirExists = FALSE
    /\ tempParentExists = FALSE
    /\ idx = 0
    /\ stopMe = 0
    /\ s = 0
    /\ interrupted = FALSE
    /\ mutex = "free"
    /\ stopPc = "idle"
    /\ stopReq = [set |-> FALSE, processed |-> 0, rendered |-> 0, checks |-> 0,
                  reset |-> FALSE]
    /\ log = << >>

\* A TileSet constructed from the arguments.
Constructed(e, ext, minZ, maxZ, meta, msize, mbuf, out, tms) ==
    /\ Params(e, ext, minZ, maxZ, meta, msize, mbuf, out, tms)
    /\ mode = select_mode(out)
    /\ tmsConvention = tms_convention(select_mode(out), tms)
    /\ Fresh

(***************************************************************************)
(* The TileSet methods applied one by one to a constructed TileSet         *)
(***************************************************************************)

\* tileset.count_tiles(tileset.get_first_tile())
CountTiles ==
    /\ entry = "methods"
    /\ pc = "constructed"
    /\ tiles' = count_tiles(tiles, get_first_tile, extents, minZoom, maxZoom)
    /\ pc' = "counted"
    /\ UNCHANGED << cfgVars, algVars, mode, tmsConvention, ranges, sizes,
                    metatiles, writer, temp_folder, backendVars, idx, stopMe,
                    s, interrupted, mutex, stopVars, log >>

\* tileset.tileset_ranges()
TilesetRanges ==
    /\ entry = "methods"
    /\ pc = "counted"
    /\ metatile
    /\ IF ranges_raises(tiles, minZoom, maxZoom)
       THEN pc' = "raised" /\ UNCHANGED ranges
       ELSE pc' = "ranged" /\ ranges' = tileset_ranges(tiles, minZoom, maxZoom)
    /\ UNCHANGED << cfgVars, algVars, mode, tmsConvention, tiles, sizes,
                    metatiles, writer, temp_folder, backendVars, idx, stopMe,
                    s, interrupted, mutex, stopVars, log >>

\* tileset.tileset_size()
TilesetSize ==
    /\ entry = "methods"
    /\ pc = "ranged"
    /\ sizes' = tileset_size(ranges)
    /\ pc' = "sized"
    /\ UNCHANGED << cfgVars, algVars, mode, tmsConvention, tiles, ranges,
                    metatiles, writer, temp_folder, backendVars, idx, stopMe,
                    s, interrupted, mutex, stopVars, log >>

\* tileset.count_metatiles()
CountMetatiles ==
    /\ entry = "methods"
    /\ pc = "sized"
    /\ metatiles' = count_metatiles(minZoom, maxZoom, ranges, sizes,
                                    metatile_size.rows, metatile_size.cols,
                                    metatile_buffer)
    /\ pc' = "grouped"
    /\ UNCHANGED << cfgVars, algVars, mode, tmsConvention, tiles, ranges,
                    sizes, writer, temp_folder, backendVars, idx, stopMe,
                    s, interrupted, mutex, stopVars, log >>

\* Tile(x, y, z)
NewTile ==
    /\ entry = "tile"
    /\ pc = "no_tile"
    /\ \E z \in TileZooms :
          \E x \in 0..(Pow2(z) - 1), y \in 0..(Pow2(z) - 1) :
              tiles' = << Tile(x, y, z) >>
    /\ pc' = "tile"
    /\ UNCHANGED << cfgVars, algVars, mode, tmsConvention, ranges, sizes,
                    metatiles, writer, temp_folder, backendVars, idx, stopMe,
                    s, interrupted, mutex, stopVars, log >>

\* Tile(t.x, t.y_tms, t.z) for the tile t just constructed
TmsTile ==
    /\ entry = "tile"
    /\ pc = "tile"
    /\ tiles' = Append(tiles, Tile(tiles[1].x, tiles[1].y_tms, tiles[1].z))
    /\ pc' = "tile_tms"
    /\ UNCHANGED << cfgVars, algVars, mode, tmsConvention, ranges, sizes,
                    metatiles, writer, temp_folder, backendVars, idx, stopMe,
                    s, interrupted, mutex, stopVars, log >>

\* Tile alone: every tile of the zoom levels up to one beyond the width of
\* the significand.
InitTile ==
    /\ Constructed("tile", NullRectangle, 0, 0, FALSE,
                   [rows |-> 2, cols |-> 2], FALSE, DirOutput, FALSE)
    /\ format = "PNG"
    /\ pc = "no_tile"
    /\ algPc = "none"
    /\ feedback = "none"
    /\ workThread = "None"

NextTile == NewTile \/ TmsTile

SpecTile == InitTile /\ [][NextTile]_vars

\* Enumeration alone: every extent and every zoom range minZoom <= maxZoom.
InitEnum ==
    /\ \E ext \in ValidExtents, minZ \in Zooms, maxZ \in Zooms :
          /\ minZ <= maxZ
          /\ Constructed("methods", ext, minZ, maxZ, FALSE,
                         [rows |-> 2, cols |-> 2], FALSE, DirOutput, FALSE)
    /\ format = "PNG"
    /\ pc = "constructed"
    /\ algPc = "none"
    /\ feedback = "none"
    /\ workThread = "None"

NextEnum == CountTiles

SpecEnum == InitEnum /\ [][NextEnum]_vars

\* Enumeration followed by metatile grouping: every interior extent, every
\* zoom range, every metatile size, buffered or not.
InitMeta ==
    /\ \E ext \in InteriorExtents, minZ \in Zooms, maxZ \in Zooms,
          msize \in MetaSizes, mbuf \in BOOLEAN :
          /\ minZ <= maxZ
          /\ Constructed("methods", ext, minZ, maxZ, TRUE, msize, mbuf,
                         DirOutput, FALSE)
    /\ format = "PNG"
    /\ pc = "constructed"
    /\ algPc = "none"
    /\ feedback = "none"
    /\ workThread = "None"

NextMeta == CountTiles \/ TilesetRanges \/ TilesetSize \/ CountMetatiles

SpecMeta == InitMeta /\ [][NextMeta]_vars

(***************************************************************************)
(* The job: processAlgorithm, TilingThread.run / TileSet.run, stop         *)
(***************************************************************************)

\* run() is TilingThread.run on its own thread, or TileSet.run in the caller.
Threaded == entry \in {"algorithm", "thread"}

\* What the rendering loop iterates over.
items == IF metatile THEN metatiles ELSE tiles

\* The positions at which run() was left by an exception.
RaisedPcs == {"raised_set_writer", "raised_ranges", "raised_render", "raised_write"}

Terminated == pc \in RaisedPcs \cup {"done"}

\* The items whose render and write (or slice) have both completed.
ItemsProcessed ==
    IF pc \in {"render", "write", "raised_render", "raised_write"} THEN idx - 1
    ELSE idx

\* The items whose render has completed.
ItemsRendered ==
    IF pc \in {"render", "raised_render"} THEN idx - 1 ELSE idx

\* The reads of stopMe the loop has performed.
ChecksDone ==
    IF pc \in {"render", "write", "progress", "chk_lock", "chk_read",
               "raised_render", "raised_write"}
    THEN idx - 1
    ELSE idx

\* The test of processAlgorithm that rejects the zoom range.
zoom_off_by_one(minZ, maxZ) == minZ > maxZ + 1

zoom_rejected(minZ, maxZ) == minZ > maxZ

\* GetTilesProcessingAlgorithm.processAlgorithm: a rejected zoom range is
\* reported and nothing else happens; otherwise the TilingThread (and its
\* TileSet) is constructed and started, and the method returns.
processAlgorithm ==
    /\ entry = "algorithm"
    /\ algPc = "call"
    /\ algPc' = "returned"
    /\ IF zoom_rejected(minZoom, maxZoom)
       THEN /\ feedback' = "zoom error"
            /\ UNCHANGED << workThread, mode, tmsConvention, pc >>
       ELSE /\ workThread' = "started"
            /\ mode' = select_mode(output)
            /\ tmsConvention' = tms_convention(select_mode(output), tmsArg)
            /\ pc' = "reset_lock"
            /\ UNCHANGED feedback
    /\ UNCHANGED << cfgVars, tiles, ranges, sizes, metatiles, writer,
                    temp_folder, backendVars, idx, stopMe, s, interrupted,
                    mutex, stopVars, log >>

\* QThread.start() on a TilingThread a caller constructed.
start ==
    /\ entry = "thread"
    /\ workThread = "created"
    /\ workThread' = "started"
    /\ pc' = "reset_lock"
    /\ UNCHANGED << cfgVars, algPc, feedback, tsVars, backendVars, idx,
                    stopMe, s, interrupted, mutex, stopVars, log >>

\* run(): self.mutex.lock()
run_reset_lock ==
    /\ pc = "reset_lock"
    /\ mutex = "free"
    /\ mutex' = "worker"
    /\ pc' = "reset_set"
    /\ UNCHANGED << cfgVars, algVars, tsVars, backendVars, idx, stopMe, s,
                    interrupted, stopVars, log >>

\* run(): self.stopMe = 0
run_reset_set ==
    /\ pc = "reset_set"
    /\ stopMe' = 0
    /\ pc' = "reset_unlock"
    /\ UNCHANGED << cfgVars, algVars, tsVars, backendVars, idx, s,
                    interrupted, mutex, stopVars, log >>

\* run(): self.mutex.unlock()
run_reset_unlock ==
    /\ pc = "reset_unlock"
    /\ mutex' = "free"
    /\ pc' = "set_writer"
    /\ UNCHANGED << cfgVars, algVars, tsVars, backendVars, idx, stopMe, s,
                    interrupted, stopVars, log >>

\* TileSet.set_writer.  self.mode was never assigned for a destination that
\* is neither a directory nor *.zip nor *.mbtiles: AttributeError.
\* MBTilesWriter.__init__ calls unicode(...), a name Python 3 does not
\* define: the constructor raises NameError unless the interpreter resolves
\* that name, so both outcomes are explored.
set_writer ==
    /\ pc = "set_writer"
    /\ \/ /\ mode = "DIR"
          /\ writer' = "DirectoryWriter"
          /\ pc' = "count"
          /\ UNCHANGED << temp_folder, backendVars >>
       \/ /\ mode = "ZIP"
          /\ writer' = "ZipWriter"
          /\ writerOpen' = TRUE
          /\ temp_folder' = "tmp"
          /\ tempDirExists' = TRUE
          /\ tempParentExists' = TRUE
          /\ pc' = "count"
       \/ /\ mode = "MBTILES"
          /\ temp_folder' = "tmp"
          /\ tempDirExists' = TRUE
          /\ tempParentExists' = TRUE
          /\ \/ /\ writer' = "MBTilesWriter"
                /\ writerOpen' = TRUE
                /\ pc' = "count"
             \/ /\ pc' = "raised_set_writer"
                /\ UNCHANGED << writer, writerOpen >>
       \/ /\ mode = "unset"
          /\ pc' = "raised_set_writer"
          /\ UNCHANGED << writer, temp_folder, backendVars >>
    /\ UNCHANGED << cfgVars, algVars, mode, tmsConvention, tiles, ranges,
                    sizes, metatiles, idx, stopMe, s, interrupted, mutex,
                    stopVars, log >>

\* Entering the rendering loop over n items: the first item, or straight to
\* finalize when the list is empty.
EnterLoop_second_item(n) ==
    IF n >= 2 THEN pc' = "render" /\ idx' = 2
    ELSE IF n >= 1 THEN pc' = "render" /\ idx' = 1
    ELSE pc' = "finalize" /\ idx' = 0

EnterLoop(n) ==
    IF n >= 1 THEN pc' = "render" /\ idx' = 1
    ELSE pc' = "finalize" /\ idx' = 0

\* run(): 'Searching tiles...', count_tiles, and for a standard job the
\* announcement of the rendering total.
run_count_tiles ==
    /\ pc = "count"
    /\ LET found == count_tiles(tiles, get_first_tile, extents, minZoom, maxZoom)
           searching == << Signal("rangeChanged", 1), Signal("updateProgress", 0) >>
       IN  /\ tiles' = found
           /\ IF metatile
              THEN /\ pc' = "group"
                   /\ UNCHANGED idx
                   /\ log' = IF Threaded THEN log \o searching ELSE log
              ELSE /\ EnterLoop(Len(found))
                   /\ log' = IF Threaded
                             THEN log \o searching
                                      \o << Signal("rangeChanged", Len(found)) >>
                             ELSE log
    /\ UNCHANGED << cfgVars, algVars, mode, tmsConvention, ranges, sizes,
                    metatiles, writer, temp_folder, backendVars, stopMe, s,
                    interrupted, mutex, stopVars >>

\* run(): 'Generating metatiles...', tileset_ranges, tileset_size,
\* count_metatiles and the announcement of the rendering total.
run_count_metatiles ==
    /\ pc = "group"
    /\ LET generating == << Signal("rangeChanged", 1), Signal("updateProgress", 0) >>
       IN  IF ranges_raises(tiles, minZoom, maxZoom)
           THEN /\ pc' = "raised_ranges"
                /\ log' = IF Threaded THEN log \o generating ELSE log
                /\ UNCHANGED << ranges, sizes, metatiles, idx >>
           ELSE LET rs == tileset_ranges(tiles, minZoom, maxZoom)
                    szs == tileset_size(rs)
                    ms == count_metatiles(minZoom, maxZoom, rs, szs,
                                          metatile_size.rows, metatile_size.cols,
                                          metatile_buffer)
                IN  /\ ranges' = rs
                    /\ sizes' = szs
                    /\ metatiles' = ms
                    /\ EnterLoop(Len(ms))
                    /\ log' = IF Threaded
                              THEN log \o generating
                                       \o << Signal("rangeChanged", Len(ms)) >>
                              ELSE log
    /\ UNCHANGED << cfgVars, algVars, mode, tmsConvention, tiles, writer,
                    temp_folder, backendVars, stopMe, s, interrupted, mutex,
                    stopVars >>

\* After an item's write: TilingThread.run reports progress and checks the
\* flag; TileSet.run goes straight to the next item.
AfterItem ==
    IF Threaded THEN pc' = "progress" /\ UNCHANGED idx
    ELSE IF idx < Len(items) THEN pc' = "render" /\ idx' = idx + 1
    ELSE pc' = "finalize" /\ UNCHANGED idx

\* render_tile / render_metatile up to and including self.render(): the
\* render callback returns an image, or raises.
render ==
    /\ pc = "render"
    /\ \/ /\ log' = Append(log, Ev("render", idx, 0, 0, 0, 0))
          /\ pc' = "write"
       \/ /\ pc' = "raised_render"
          /\ UNCHANGED log
    /\ UNCHANGED << cfgVars, algVars, tsVars, backendVars, idx, stopMe, s,
                    interrupted, mutex, stopVars >>

\* The row a writer stores a tile under: y, or y_tms when its tmsConvention
\* is set (the same four lines in all three writers).
writer_row_native(tms, t) == t.y

writer_row(tms, t) == IF tms THEN t.y_tms ELSE t.y

\* Where a writer puts its output: under the output directory, inside the
\* archive, or in the tiles table of the database.
writer_base(w) ==
    CASE w = "DirectoryWriter" -> "output"
      [] w = "ZipWriter" -> "archive"
      [] OTHER -> "database"

\* path = '%s/%s/%s' % (self.rootDir, tile.z, tile.x) below the writer's base.
tile_dir(w, t) ==
    [base |-> writer_base(w), root |-> "rootDir", z |-> t.z, x |-> t.x,
     row |-> 0, ext |-> ""]

\* '%s/%s.%s' % (path, y, format.lower())
tile_path(w, tms, fmt, t) ==
    [tile_dir(w, t) EXCEPT !.row = writer_row(tms, t), !.ext = lower(fmt)]

\* The writeTile call for tile t while item number k is processed: the tile
\* is stored under its row, at its path for the directory and archive writers.
WriteEv(k, t) ==
    [Ev("writeTile", k, t.z, t.x, t.y, writer_row(tmsConvention, t))
        EXCEPT !.path = IF writer = "MBTilesWriter" THEN NoPath
                        ELSE tile_path(writer, tmsConvention, format, t)]

\* DirectoryWriter.writeTile: QDir().mkpath(dirPath) precedes image.save.
MkpathEv(k, t) ==
    [Ev("mkpath", k, t.z, t.x, t.y, 0) EXCEPT !.path = tile_dir(writer, t)]

\* Everything one writeTile call does, in order.
writeTile(k, t) ==
    IF writer = "DirectoryWriter" THEN << MkpathEv(k, t), WriteEv(k, t) >>
    ELSE << WriteEv(k, t) >>

\* render_tile, after the render: self.writer.writeTile(tile, img, ...), which
\* stores the tile or raises.
write_tile ==
    /\ pc = "write"
    /\ ~metatile
    /\ \/ /\ log' = log \o writeTile(idx, tiles[idx])
          /\ AfterItem
       \/ /\ pc' = "raised_write"
          /\ UNCHANGED << log, idx >>
    /\ UNCHANGED << cfgVars, algVars, tsVars, backendVars, stopMe, s,
                    interrupted, mutex, stopVars >>

\* The tile-index bounds of a metatile without its buffer ring.
unbuffered(m) ==
    IF m.buffered
    THEN << m.extents[1] + 1, m.extents[2] - 1, m.extents[3] + 1, m.extents[4] - 1 >>
    ELSE m.extents

\* Whether tile index (row, col) lies inside bounds b.
in_bounds(b, row, col) == b[1] <= row /\ row <= b[2] /\ b[3] <= col /\ col <= b[4]

\* Metatile.slice: one writeTile per enumerated tile of the metatile's zoom
\* level inside its unbuffered bounds.
sliced_tiles(m, ts) ==
    SelectSeq(ts, LAMBDA t : t.z = m.z /\ in_bounds(unbuffered(m), t.y, t.x))

RECURSIVE WriteEvs(_, _)
WriteEvs(k, ts) ==
    IF ts = << >> THEN << >> ELSE writeTile(k, Head(ts)) \o WriteEvs(k, Tail(ts))

\* metatile.slice() after render_metatile: the tiles are written, or a write
\* raises.
slice ==
    /\ pc = "write"
    /\ metatile
    /\ \/ /\ log' = log \o WriteEvs(idx, sliced_tiles(metatiles[idx], tiles))
          /\ AfterItem
       \/ /\ pc' = "raised_write"
          /\ UNCHANGED << log, idx >>
    /\ UNCHANGED << cfgVars, algVars, tsVars, backendVars, stopMe, s,
                    interrupted, mutex, stopVars >>

\* What the loop body emits once its item is rendered and written.
item_progress_twice == << Signal("updateProgress", 0), Signal("updateProgress", 0) >>

item_progress == << Signal("updateProgress", 0) >>

\* run(): self.updateProgress.emit()
run_progress ==
    /\ pc = "progress"
    /\ log' = log \o item_progress
    /\ pc' = "chk_lock"
    /\ UNCHANGED << cfgVars, algVars, tsVars, backendVars, idx, stopMe, s,
                    interrupted, mutex, stopVars >>

\* run(): self.mutex.lock()
run_check_lock ==
    /\ pc = "chk_lock"
    /\ mutex = "free"
    /\ mutex' = "worker"
    /\ pc' = "chk_read"
    /\ UNCHANGED << cfgVars, algVars, tsVars, backendVars, idx, stopMe, s,
                    interrupted, stopVars, log >>

\* run(): s = self.stopMe
run_check_read ==
    /\ pc = "chk_read"
    /\ s' = stopMe
    /\ pc' = "chk_unlock"
    /\ UNCHANGED << cfgVars, algVars, tsVars, backendVars, idx, stopMe,
                    interrupted, mutex, stopVars, log >>

\* run(): self.mutex.unlock()
run_check_unlock ==
    /\ pc = "chk_unlock"
    /\ mutex' = "free"
    /\ pc' = "chk_test"
    /\ UNCHANGED << cfgVars, algVars, tsVars, backendVars, idx, stopMe, s,
                    interrupted, stopVars, log >>

\* The test that leaves the loop.
stop_seen_never(v) == v = 2

stop_seen(v) == v = 1

\* Where run() continues after the break: tileset.writer.finalize().
after_break_skips_finalize == "emit"

after_break == "finalize"

\* run(): if s == 1: self.interrupted = True; break -- else the next item.
run_check_test ==
    /\ pc = "chk_test"
    /\ IF stop_seen(s)
       THEN /\ interrupted' = TRUE
            /\ pc' = after_break
            /\ UNCHANGED idx
       ELSE /\ UNCHANGED interrupted
            /\ IF idx < Len(items) THEN pc' = "render" /\ idx' = idx + 1
               ELSE pc' = "finalize" /\ UNCHANGED idx
    /\ UNCHANGED << cfgVars, algVars, tsVars, backendVars, stopMe, s, mutex,
                    stopVars, log >>

\* Whether the caller hands the temp folder to finalize: TileSet.run calls
\* finalize(self.temp_folder), TilingThread.run calls finalize().
passes_temp_folder == ~Threaded /\ temp_folder # "None"

\* writer.finalize(temp_folder): DirectoryWriter does nothing; ZipWriter and
\* MBTilesWriter close the archive / database and, when a temp folder was
\* passed, shutil.rmtree(temp_folder): temp_folder is mkdtemp()/rootDir, the
\* directory mkdtemp() made stays.
finalize ==
    /\ pc = "finalize"
    /\ log' = Append(log, Ev("finalize", IF passes_temp_folder THEN 1 ELSE 0, 0, 0, 0, 0))
    /\ writerOpen' = FALSE
    /\ tempDirExists' = IF writer # "DirectoryWriter" /\ passes_temp_folder
                        THEN FALSE ELSE tempDirExists
    /\ UNCHANGED tempParentExists
    /\ pc' = IF Threaded THEN "emit" ELSE "done"
    /\ UNCHANGED << cfgVars, algVars, tsVars, idx, stopMe, s, interrupted,
                    mutex, stopVars >>

\* The signal run() ends with.
outcome_signal(intr) == IF ~intr THEN "processFinished" ELSE "processInterrupted"

\* run(): processFinished or processInterrupted
run_emit ==
    /\ pc = "emit"
    /\ log' = Append(log, Signal(outcome_signal(interrupted), 0))
    /\ pc' = "done"
    /\ UNCHANGED << cfgVars, algVars, tsVars, backendVars, idx, stopMe, s,
                    interrupted, mutex, stopVars >>

\* stop(): self.mutex.lock(), called at any time after the thread was started.
stop_lock_no_wait ==
    /\ workThread = "started"
    /\ stopPc = "idle"
    /\ mutex' = "controller"
    /\ stopPc' = "set"
    /\ UNCHANGED << cfgVars, algVars, tsVars, backendVars, pc, idx, stopMe, s,
                    interrupted, stopReq, log >>

stop_lock ==
    /\ workThread = "started"
    /\ stopPc = "idle"
    /\ mutex = "free"
    /\ mutex' = "controller"
    /\ stopPc' = "set"
    /\ UNCHANGED << cfgVars, algVars, tsVars, backendVars, pc, idx, stopMe, s,
                    interrupted, stopReq, log >>

\* stop(): self.stopMe = 1
stop_set ==
    /\ stopPc = "set"
    /\ stopMe' = 1
    /\ stopReq' = [set |-> TRUE, processed |-> ItemsProcessed,
                   rendered |-> ItemsRendered, checks |-> ChecksDone,
                   reset |-> pc \notin {"reset_lock", "reset_set"}]
    /\ stopPc' = "unlock"
    /\ UNCHANGED << cfgVars, algVars, tsVars, backendVars, pc, idx, s,
                    interrupted, mutex, log >>

\* stop(): self.mutex.unlock()
stop_unlock ==
    /\ stopPc = "unlock"
    /\ mutex' = "free"
    /\ stopPc' = "wait"
    /\ UNCHANGED << cfgVars, algVars, tsVars, backendVars, pc, idx, stopMe, s,
                    interrupted, stopReq, log >>

\* stop(): QThread.wait(self) returns once run() has ended.
stop_wait ==
    /\ stopPc = "wait"
    /\ Terminated
    /\ stopPc' = "returned"
    /\ UNCHANGED << cfgVars, algVars, tsVars, backendVars, threadVars,
                    stopReq, log >>

(***************************************************************************)
(* The job specification                                                   *)
(***************************************************************************)

Half == Grid \div 2

\* The extents of the jobs explored: no overlap with the world, the whole
\* world, the centre point (a corner of four tiles at every zoom level),
\* a point and a segment strictly inside the north-west tiles.
JobExtents ==
    { NullRectangle,
      Rect(0, Grid, 0, Grid),
      Rect(Half, Half, Half, Half),
      Rect(1, 1, Grid - 1, Grid - 1),
      Rect(1, 3, Grid - 1, Grid - 1) }

\* The destinations of the jobs explored: a directory, an archive, a tile
\* database, anything else.
JobOutputs ==
    { DirOutput,
      [isDir |-> FALSE, suffix |-> "zip"],
      [isDir |-> FALSE, suffix |-> "mbtiles"],
      [isDir |-> FALSE, suffix |-> "png"] }

\* metatile_size = {'rows': 2, 'cols': 2} of processAlgorithm.
DefaultMetatileSize == [rows |-> 2, cols |-> 2]

\* The jobs explored enumerate at most MaxTiles tiles.
SmallJob(ext, minZ, maxZ) ==
    Len(count_tiles(<< >>, get_first_tile, ext, minZ, maxZ)) <= MaxTiles

\* processAlgorithm is about to be called: its parameters are the extent, the
\* two zoom levels (in any order) and the destination; it fixes everything
\* else (metatile = False, tmsconvention = False, tile_format = 'PNG', ...).
InitAlgorithm ==
    /\ \E ext \in JobExtents, minZ \in Zooms, maxZ \in Zooms, out \in JobOutputs :
          /\ SmallJob(ext, minZ, maxZ)
          /\ Params("algorithm", ext, minZ, maxZ, FALSE, DefaultMetatileSize,
                    FALSE, out, FALSE)
    /\ format = "PNG"
    /\ mode = "unset"
    /\ tmsConvention = FALSE
    /\ Fresh
    /\ pc = "idle"
    /\ algPc = "call"
    /\ feedback = "none"
    /\ workThread = "None"

\* A caller constructed a TilingThread (not yet started), or a TileSet whose
\* run() it is about to call.
InitDirect ==
    /\ \E e \in {"thread", "tileset"}, ext \in JobExtents, minZ \in Zooms,
          maxZ \in Zooms, meta \in BOOLEAN, mbuf \in BOOLEAN,
          out \in JobOutputs, tms \in BOOLEAN :
          /\ minZ <= maxZ
          /\ meta \/ ~mbuf
          /\ SmallJob(ext, minZ, maxZ)
          /\ Constructed(e, ext, minZ, maxZ, meta, DefaultMetatileSize, mbuf,
                         out, tms)
    /\ format \in Formats
    /\ pc = IF entry = "thread" THEN "idle" ELSE "set_writer"
    /\ algPc = "none"
    /\ feedback = "none"
    /\ workThread = IF entry = "thread" THEN "created" ELSE "None"

InitJob == InitAlgorithm \/ InitDirect

NextJob ==
    \/ processAlgorithm
    \/ start
    \/ run_reset_lock
    \/ run_reset_set
    \/ run_reset_unlock
    \/ set_writer
    \/ run_count_tiles
    \/ run_count_metatiles
    \/ render
    \/ write_tile
    \/ slice
    \/ run_progress
    \/ run_check_lock
    \/ run_check_read
    \/ run_check_unlock
    \/ run_check_test
    \/ finalize
    \/ run_emit
    \/ stop_lock
    \/ stop_set
    \/ stop_unlock
    \/ stop_wait

Spec == InitJob /\ [][NextJob]_vars

(***************************************************************************)
(* Properties                                                              *)
(***************************************************************************)

\* Every tile (x, y, z) with minZ <= z <= maxZ and 0 <= x, y < 2^z, and those
\* of them whose rectangle intersects the extent.
PyramidTiles(minZ, maxZ) ==
    UNION { { Tile(x, y, z) : x \in 0..(Pow2(z) - 1), y \in 0..(Pow2(z) - 1) } :
            z \in minZ..maxZ }

IntersectingTiles(ext, minZ, maxZ) ==
    { t \in PyramidTiles(minZ, maxZ) : intersects(ext, toRectangle(t)) }

CountedTiles == entry = "methods" /\ pc = "counted"

\* C1: count_tiles started at the root tile leaves in tiles exactly the tiles
\* (x, y, z) with minZoom <= z <= maxZoom and 0 <= x, y < 2^z whose rectangle
\* intersects the extent, each exactly once.
C1_ExactEnumeration ==
    CountedTiles =>
        /\ Range(tiles) = IntersectingTiles(extents, minZoom, maxZoom)
        /\ Len(tiles) = Cardinality(Range(tiles))

\* C1 witness: the whole world over zooms 0..2 gave 1 + 4 + 16 = 21 tiles.
C1_Witness ==
    /\ CountedTiles
    /\ extents = Rect(0, Grid, 0, Grid)
    /\ minZoom = 0
    /\ maxZoom = 2
    /\ Len(tiles) = 21

\* The tiles of zoom level 1 (the quadrants) the extent touches.
TouchedQuadrants ==
    { q \in { Tile(x, y, 1) : x \in 0..1, y \in 0..1 } :
        intersects(extents, toRectangle(q)) }

NumAt(z) == Len(tiles_at(tiles, z))

\* The ancestor at zoom level 1 of a tile of zoom level >= 1.
QuadrantOf(t) == Tile(t.x \div Pow2(t.z - 1), t.y \div Pow2(t.z - 1), 1)

OneQuadrantCase ==
    /\ CountedTiles
    /\ minZoom <= 1
    /\ maxZoom >= 2
    /\ Cardinality(TouchedQuadrants) = 1

\* C2 as stated: an extent touching one quadrant at z = 1 yields exactly 1
\* tile at z = 1 and exactly 4 tiles at z = 2, none under a pruned quadrant.
C2_AsStated ==
    OneQuadrantCase =>
        /\ NumAt(1) = 1
        /\ NumAt(2) = 4
        /\ \A i \in DOMAIN tiles :
              tiles[i].z >= 1 => QuadrantOf(tiles[i]) \in TouchedQuadrants

\* C2 amended: such an extent yields exactly 1 tile at z = 1 and between 1
\* and 4 tiles at z = 2 (the children of that quadrant the extent
\* intersects), and no tile under a pruned quadrant appears at any level.
C2_Pruning ==
    OneQuadrantCase =>
        /\ NumAt(1) = 1
        /\ NumAt(2) \in 1..4
        /\ Range(tiles_at(tiles, 2)) =
              { t \in Range(sub_tiles(CHOOSE q \in TouchedQuadrants : TRUE)) :
                  intersects(extents, toRectangle(t)) }
        /\ \A i \in DOMAIN tiles :
              tiles[i].z >= 1 => QuadrantOf(tiles[i]) \in TouchedQuadrants

\* C2 witness: one quadrant touched and fewer than 4 tiles found at z = 2.
C2_Witness ==
    /\ OneQuadrantCase
    /\ NumAt(1) = 1
    /\ NumAt(2) = 2

Grouped == entry = "methods" /\ pc = "grouped"

\* The metatiles count_metatiles returned for zoom level z.
MetatilesAt(z) == SelectSeq(metatiles, LAMBDA m : m.z = z)

\* C3: every tile index inside the bounding box computed by tileset_ranges
\* lies inside the unbuffered bounds of at least one metatile returned by
\* count_metatiles for that zoom level, for every metatile size >= 1 x 1.
C3_EveryTileCovered ==
    Grouped =>
        \A z \in zoom_ranges(minZoom, maxZoom) :
            \A row \in ranges[z][1]..ranges[z][2], col \in ranges[z][3]..ranges[z][4] :
                \E m \in Range(MetatilesAt(z)) : in_bounds(unbuffered(m), row, col)

CeilDiv(a, b) == (a + b - 1) \div b

\* C4: when the metatile size does not cover the whole span of a zoom level,
\* count_metatiles emits exactly ceil(spanRows / metaRows) *
\* ceil(spanCols / metaCols) metatiles for that zoom level.
C4_MetatileCount ==
    Grouped =>
        \A z \in zoom_ranges(minZoom, maxZoom) :
            ~covers_span(sizes[z], metatile_size.rows, metatile_size.cols) =>
                Len(MetatilesAt(z)) =
                    CeilDiv(sizes[z].rows, metatile_size.rows)
                        * CeilDiv(sizes[z].cols, metatile_size.cols)

(***************************************************************************)
(* Properties of the job                                                   *)
(***************************************************************************)

\* The events of one kind, in order.
LogOf(e) == SelectSeq(log, LAMBDA r : r.ev = e)

NumEv(e) == Len(LogOf(e))

\* The log ends with a finalize call followed by the signal sig.
EndsFinalizedWith(sig) ==
    /\ Len(log) >= 2
    /\ log[Len(log)].ev = sig
    /\ log[Len(log) - 1].ev = "finalize"

\* stop() set the flag while run() had not yet made the check that follows
\* the last item.
RequestedInTime == stopReq.set /\ stopReq.checks < Len(items)

\* C5 as stated, read in its most favourable way (N >= 1, the flag was set
\* before the check following the last item, and no render or write raised):
\* when the job has ended exactly N items were rendered and written, the
\* outcome is Interrupted and finalize preceded it.
C5_AsStated ==
    (Threaded /\ pc = "done" /\ RequestedInTime /\ stopReq.processed >= 1) =>
        /\ ItemsProcessed = stopReq.processed
        /\ NumEv("render") = stopReq.processed
        /\ EndsFinalizedWith("processInterrupted")
        /\ NumEv("processFinished") = 0

\* The number of items after which run() leaves the loop when the flag was
\* set with N items processed: N when the check that follows item N was
\* still to come, N + 1 otherwise.
ItemsAtBreak ==
    IF stopReq.checks < stopReq.processed
    THEN stopReq.processed
    ELSE stopReq.processed + 1

\* C5 amended: if stop() sets stopMe after N >= 1 of the M items have been
\* processed and before the check that follows the last item, run() never
\* renders or writes more than N + 1 items: it leaves the loop after N items
\* when the flag was set before the check following item N and after N + 1
\* items otherwise; it then calls finalize once and, after finalize has
\* returned, emits processInterrupted and never processFinished.
C5_Cancellation ==
    (Threaded /\ RequestedInTime /\ stopReq.processed >= 1) =>
        /\ ItemsProcessed <= ItemsAtBreak
        /\ NumEv("render") <= ItemsAtBreak
        /\ NumEv("render") = ItemsRendered
        /\ ~metatile => NumEv("writeTile") = ItemsProcessed
        /\ pc \in {"finalize", "emit", "done"} =>
              /\ interrupted
              /\ ItemsProcessed = ItemsAtBreak
              /\ NumEv("render") = ItemsAtBreak
        /\ pc = "emit" => log[Len(log)].ev = "finalize"
        /\ pc = "done" =>
              /\ EndsFinalizedWith("processInterrupted")
              /\ NumEv("finalize") = 1
        /\ NumEv("processFinished") = 0

\* C5 witness: the flag was set with N >= 1 items processed, after the check
\* that follows item N; the job ended Interrupted after N + 1 of more than
\* N + 1 items.
C5_Witness ==
    /\ Threaded
    /\ pc = "done"
    /\ RequestedInTime
    /\ stopReq.processed >= 1
    /\ stopReq.checks = stopReq.processed
    /\ ItemsProcessed = stopReq.processed + 1
    /\ Len(items) > ItemsProcessed
    /\ EndsFinalizedWith("processInterrupted")

\* C6: if the render callback or writeTile raises, finalize is still called
\* before the job exits.
C6_AsStated ==
    pc \in {"raised_render", "raised_write"} => NumEv("finalize") >= 1

\* C7: in every run that ends by exhausting the item list or by observing
\* cancellation, finalize is called exactly once, after the last writeTile
\* call, and no writeTile call follows it.
C7_FinalizeOnce ==
    /\ pc = "done" => NumEv("finalize") = 1
    /\ NumEv("finalize") <= 1
    /\ \A i \in DOMAIN log, j \in DOMAIN log :
          (log[i].ev = "finalize" /\ log[j].ev = "writeTile") => j < i

\* C7 witness: an interrupted run that wrote tiles and has ended.
C7_Witness ==
    /\ pc = "done"
    /\ interrupted
    /\ NumEv("writeTile") >= 2
    /\ NumEv("finalize") = 1

\* C8: when minZoom > maxZoom, processAlgorithm reports the error and returns
\* with no side effect of a job: no thread created or started, no writer
\* constructed, no tile enumerated, no render, nothing written or emitted.
C8_RejectedZoomRange ==
    (entry = "algorithm" /\ minZoom > maxZoom /\ algPc = "returned") =>
        /\ feedback = "zoom error"
        /\ workThread = "None"
        /\ pc = "idle"
        /\ writer = "None"
        /\ ~writerOpen
        /\ ~tempDirExists
        /\ tiles = << >>
        /\ log = << >>

\* C8 witness: processAlgorithm returned from a call with minZoom > maxZoom.
C8_Witness ==
    /\ entry = "algorithm"
    /\ minZoom > maxZoom
    /\ algPc = "returned"
    /\ feedback = "zoom error"

\* C9: a cancellation requested after the thread was started and before the
\* check that follows the last item is never lost: the job ends Interrupted
\* rather than Completed.
C9_AsStated ==
    (Threaded /\ pc = "done" /\ RequestedInTime) =>
        /\ interrupted
        /\ NumEv("processInterrupted") = 1
        /\ NumEv("processFinished") = 0

\* C10: in MBTILES mode every row written by writeTile is the TMS row
\* 2^z - y - 1, whatever the tmsConvention argument of the job.
C10_MBTilesRow ==
    mode = "MBTILES" =>
        \A i \in DOMAIN log :
            log[i].ev = "writeTile" => log[i].row = Pow2(log[i].z) - log[i].y - 1

\* C10 witness: an MBTILES job configured with tmsConvention = False wrote a
\* tile of a zoom level >= 1.
C10_Witness ==
    /\ mode = "MBTILES"
    /\ ~tmsArg
    /\ \E i \in DOMAIN log : log[i].ev = "writeTile" /\ log[i].z >= 1

(***************************************************************************)
(* Properties of the writers and of Tile                                   *)
(***************************************************************************)

\* The extension a stored tile is expected to carry.
ExpectedExt == IF format = "PNG" THEN "png" ELSE "jpg"

\* The row a stored tile is expected to carry under convention flag tms.
ExpectedRow(tms, e) == IF tms THEN Pow2(e.z) - e.y - 1 ELSE e.y

\* C11: DirectoryWriter.writeTile and ZipWriter.writeTile store tile (x, y, z)
\* at rootDir/z/x/<row>.<ext> (below the output directory, resp. inside the
\* archive), <row> being y when the convention flag is false and 2^z - y - 1
\* when it is true, <ext> the lower-cased format; the directory writer calls
\* mkpath on rootDir/z/x immediately before it saves the tile.
C11_TilePath ==
    mode \in {"DIR", "ZIP"} =>
        \A i \in DOMAIN log :
            log[i].ev = "writeTile" =>
                /\ log[i].path =
                      [base |-> IF mode = "DIR" THEN "output" ELSE "archive",
                       root |-> "rootDir", z |-> log[i].z, x |-> log[i].x,
                       row |-> ExpectedRow(tmsArg, log[i]), ext |-> ExpectedExt]
                /\ mode = "DIR" =>
                      /\ i > 1
                      /\ log[i - 1].ev = "mkpath"
                      /\ log[i - 1].path =
                            [base |-> "output", root |-> "rootDir",
                             z |-> log[i].z, x |-> log[i].x, row |-> 0, ext |-> ""]

\* C11 witness: a directory or archive job with the convention flag set and
\* an upper-case format stored a tile of a zoom level >= 1.
C11_Witness ==
    /\ mode \in {"DIR", "ZIP"}
    /\ tmsArg
    /\ format = "PNG"
    /\ \E i \in DOMAIN log :
          /\ log[i].ev = "writeTile"
          /\ log[i].z >= 1
          /\ log[i].row # log[i].y

\* C12: in ZIP mode, once finalize has been called the archive is closed and
\* the temp directory tree made by set_writer is gone.
C12_AsStated ==
    (mode = "ZIP" /\ NumEv("finalize") >= 1) =>
        /\ ~writerOpen
        /\ ~tempDirExists
        /\ ~tempParentExists

\* C13: for every z >= 0 and every (x, y) with 0 <= x, y < 2^z,
\* Tile(x, y, z).y_tms is 2^z - y - 1, lies in [0, 2^z), and converting it
\* again gives y back.
C13_AsStated ==
    (entry = "tile" /\ pc \in {"tile", "tile_tms"}) =>
        /\ tiles[1].y_tms = Pow2(tiles[1].z) - tiles[1].y - 1
        /\ tiles[1].y_tms \in 0..(Pow2(tiles[1].z) - 1)
        /\ pc = "tile_tms" => tiles[2].y_tms = tiles[1].y

\* The writer class of an output mode.
WriterOf(m) ==
    CASE m = "DIR" -> "DirectoryWriter"
      [] m = "ZIP" -> "ZipWriter"
      [] m = "MBTILES" -> "MBTilesWriter"
      [] OTHER -> "None"

\* C14: every destination gives the constructed TileSet exactly one mode (DIR
\* for a directory, else ZIP for suffix zip, else MBTILES for suffix mbtiles),
\* and once set_writer has been called the writer of that mode exists.
C14_AsStated ==
    /\ (entry \in {"thread", "tileset"} \/ workThread = "started") =>
          /\ mode \in {"DIR", "ZIP", "MBTILES"}
          /\ output.isDir => mode = "DIR"
    /\ pc \notin {"idle", "reset_lock", "reset_set", "reset_unlock", "set_writer"} =>
          /\ writer # "None"
          /\ writer = WriterOf(mode)

(***************************************************************************)
(* Further properties of the metatile grouping                             *)
(***************************************************************************)

\* The zoom levels at which count_metatiles takes the partition branch.
PartitionZooms ==
    { z \in zoom_ranges(minZoom, maxZoom) :
        ~covers_span(sizes[z], metatile_size.rows, metatile_size.cols) }

\* C15: in the partition branch, a span that is not a multiple of the
\* metatile size is extended to a span that is an exact multiple of it, rows
\* and columns alike.
C15_AsStated ==
    Grouped =>
        \A z \in PartitionZooms :
            LET pr == padded_range(ranges[z], metatile_size.rows, metatile_size.cols)
            IN  /\ sizes[z].rows % metatile_size.rows # 0 =>
                      ((pr[2] + 1) - pr[1]) % metatile_size.rows = 0
                /\ sizes[z].cols % metatile_size.cols # 0 =>
                      ((pr[4] + 1) - pr[3]) % metatile_size.cols = 0

\* The bounds expected of metatile m when every metatile is expanded by b
\* tiles on each side: a cell of the metatile grid anchored at the box's
\* first row and column in the partition branch, the box itself otherwise.
ExpandedBy(m, b) ==
    LET r == ranges[m.z]
        core == << m.extents[1] + b, m.extents[2] - b,
                   m.extents[3] + b, m.extents[4] - b >>
    IN  IF m.z \in PartitionZooms
        THEN /\ (core[1] - r[1]) % metatile_size.rows = 0
             /\ (core[2] + 1) - core[1] = metatile_size.rows
             /\ (core[3] - r[3]) % metatile_size.cols = 0
             /\ (core[4] + 1) - core[3] = metatile_size.cols
        ELSE core = r

\* C16: with buffering enabled every metatile returned by count_metatiles,
\* the single metatile of a covered zoom level included, is expanded by
\* exactly 1 on all four sides and flagged buffered; with buffering disabled
\* none is expanded or flagged.
C16_AsStated ==
    Grouped =>
        \A i \in DOMAIN metatiles :
            /\ metatiles[i].buffered = metatile_buffer
            /\ ExpandedBy(metatiles[i], IF metatile_buffer THEN 1 ELSE 0)

\* The tile list exists: count_tiles has returned.
Counted == entry = "methods" /\ pc \in {"counted", "ranged", "sized", "grouped"}

\* Column-major raster order of two (row, column) positions.
ColumnMajor(row1, col1, row2, col2) ==
    col1 < col2 \/ (col1 = col2 /\ row1 < row2)

\* C17 as stated: within one zoom level the tiles of the tile list and the
\* metatiles of the metatile list, which run() processes front to back, are
\* both in column-major raster order.
C17_AsStated ==
    /\ Counted =>
          \A i \in DOMAIN tiles, j \in DOMAIN tiles :
              (i < j /\ tiles[i].z = tiles[j].z) =>
                  ColumnMajor(tiles[i].y, tiles[i].x, tiles[j].y, tiles[j].x)
    /\ Grouped =>
          \A i \in DOMAIN metatiles, j \in DOMAIN metatiles :
              (i < j /\ metatiles[i].z = metatiles[j].z) =>
                  ColumnMajor(metatiles[i].extents[1], metatiles[i].extents[3],
                              metatiles[j].extents[1], metatiles[j].extents[3])

\* The position of tile (x, y, z) in the quadtree walk of its zoom level:
\* the position of its parent, then the column and the row inside the parent.
RECURSIVE QuadKey(_, _, _)
QuadKey(x, y, z) ==
    IF z = 0 THEN 0
    ELSE 4 * QuadKey(x \div 2, y \div 2, z - 1) + 2 * (x % 2) + (y % 2)

\* C17 amended: within one zoom level metatiles are in column-major raster
\* order, and tiles are in the order of the quadtree walk: by the position of
\* their parents in that order and, inside one parent, column first and row
\* second.
C17_Order ==
    /\ Counted =>
          \A i \in DOMAIN tiles, j \in DOMAIN tiles :
              (i < j /\ tiles[i].z = tiles[j].z) =>
                  QuadKey(tiles[i].x, tiles[i].y, tiles[i].z)
                      < QuadKey(tiles[j].x, tiles[j].y, tiles[j].z)
    /\ Grouped =>
          \A i \in DOMAIN metatiles, j \in DOMAIN metatiles :
              (i < j /\ metatiles[i].z = metatiles[j].z) =>
                  ColumnMajor(metatiles[i].extents[1], metatiles[i].extents[3],
                              metatiles[j].extents[1], metatiles[j].extents[3])

\* C17 witness: a zoom level with four metatiles in two columns, and two
\* tiles of one zoom level of which the later one has the smaller column.
C17_Witness ==
    /\ Grouped
    /\ \E z \in zoom_ranges(minZoom, maxZoom) :
          /\ Len(MetatilesAt(z)) = 4
          /\ MetatilesAt(z)[1].extents[3] = MetatilesAt(z)[2].extents[3]
          /\ MetatilesAt(z)[2].extents[3] < MetatilesAt(z)[3].extents[3]
    /\ \E i \in DOMAIN tiles, j \in DOMAIN tiles :
          /\ i < j
          /\ tiles[i].z = tiles[j].z
          /\ tiles[i].x > tiles[j].x

(***************************************************************************)
(* Further properties of the job                                           *)
(***************************************************************************)

\* The job ended in the Completed outcome: processFinished was emitted, or
\* TileSet.run returned.
Completed ==
    \/ NumEv("processFinished") = 1
    \/ (entry = "tileset" /\ pc = "done")

\* The last event before position i of the log that is not the mkpath call
\* of a writeTile: its position, 0 when there is none.
Before(i) ==
    IF i > 1 /\ log[i - 1].ev = "mkpath" THEN i - 2 ELSE i - 1

\* C18: in a non-metatiled job the tiles written so far are at every moment
\* a prefix of the enumerated tile list, in its order; every write is
\* immediately preceded by the one render of its tile; after an interruption
\* the tiles written before it are still there; and a Completed job has
\* written the whole list, every tile once.
C18_PrefixWrites ==
    ~metatile =>
        LET written == LogOf("writeTile")
            rendered == LogOf("render")
        IN  /\ Len(written) <= Len(tiles)
            /\ \A k \in DOMAIN written :
                  /\ written[k].item = k
                  /\ written[k].x = tiles[k].x
                  /\ written[k].y = tiles[k].y
                  /\ written[k].z = tiles[k].z
            /\ Len(rendered) \in {Len(written), Len(written) + 1}
            /\ \A k \in DOMAIN rendered : rendered[k].item = k
            /\ \A i \in DOMAIN log :
                  log[i].ev = "writeTile" =>
                      /\ Before(i) >= 1
                      /\ log[Before(i)].ev = "render"
                      /\ log[Before(i)].item = log[i].item
            /\ interrupted => Len(written) >= 1
            /\ Completed => Len(written) = Len(tiles)

\* C18 witness: an interrupted job that stopped after two of more than two tiles.
C18_Witness ==
    /\ ~metatile
    /\ pc = "done"
    /\ interrupted
    /\ NumEv("writeTile") = 2
    /\ Len(tiles) > 2
    /\ NumEv("processInterrupted") = 1

\* The number of events of kind e among log[from..to].
Count(e, from, to) ==
    Cardinality({i \in from..to : i \in DOMAIN log /\ log[i].ev = e})

\* The stage announcements that precede the rendering stage: 'Searching
\* tiles...' and, for a metatiled job, 'Generating metatiles...'.
EarlierStages == IF metatile THEN 2 ELSE 1

\* The rendering stage has been announced.
Announced == NumEv("rangeChanged") > EarlierStages

\* The position in the log of the announcement of the rendering stage.
AnnouncedAt ==
    CHOOSE i \in DOMAIN log :
        log[i].ev = "rangeChanged" /\ Count("rangeChanged", 1, i) = EarlierStages + 1

\* The items whose loop body has run up to and including its notification.
ItemsReported == IF pc = "progress" THEN idx - 1 ELSE ItemsProcessed

\* C19: TilingThread.run announces the rendering total, the length of the
\* finished tile or metatile list, before the first render; from then on the
\* updateProgress notifications number the items processed (one less while
\* the item just written has not been reported yet), each notification follows
\* the render of its own item and precedes the next render, and their number
\* never exceeds the announced total.
C19_Progress ==
    Threaded =>
        /\ NumEv("rangeChanged") <= EarlierStages + 1
        /\ NumEv("render") >= 1 => Announced
        /\ Announced =>
              LET a == AnnouncedAt
                  total == log[a].item
              IN  /\ pc \notin {"idle", "reset_lock", "reset_set", "reset_unlock",
                                "set_writer", "count", "group"}
                  /\ total = Len(items)
                  /\ Count("render", 1, a) = 0
                  /\ Count("updateProgress", 1, a) = EarlierStages
                  /\ Count("updateProgress", a, Len(log)) = ItemsReported
                  /\ Count("updateProgress", a, Len(log)) <= total
                  /\ \A i \in DOMAIN log :
                        (i > a /\ log[i].ev = "updateProgress") =>
                            /\ Count("render", a, i) = Count("updateProgress", a, i)
                            /\ log[i - 1].ev \in {"render", "writeTile"}

\* C19 witness: a job of at least three items has reported two of them and
\* is processing the third.
C19_Witness ==
    /\ Threaded
    /\ Announced
    /\ pc = "write"
    /\ idx = 3
    /\ Count("updateProgress", AnnouncedAt, Len(log)) = 2

\* C20: the flag is examined at item boundaries only.  Once stop() has set
\* stopMe after run()'s reset, run() renders at most one further item before
\* it leaves the loop; it leaves the loop on the flag only after an item's
\* write, so every rendered item of an interrupted job is written; and run()
\* resets and reads stopMe, and stop() sets it, only while holding the mutex,
\* never both at once.
C20_BoundaryChecks ==
    Threaded =>
        /\ (stopReq.set /\ stopReq.reset) =>
              NumEv("render") <= stopReq.rendered + 1
        /\ s = 1 => pc \in {"chk_unlock", "chk_test", "finalize", "emit", "done"}
        /\ interrupted =>
              /\ pc \in {"finalize", "emit", "done"}
              /\ ItemsRendered = ItemsProcessed
              /\ NumEv("render") = ItemsProcessed
              /\ ~metatile => NumEv("writeTile") = NumEv("render")
        /\ pc \in {"reset_set", "reset_unlock", "chk_read", "chk_unlock"} =>
              mutex = "worker"
        /\ stopPc \in {"set", "unlock"} => mutex = "controller"

\* C20 witness: stop() set the flag after run() had read it as 0 at the
\* check following an item; one further item was rendered and written, and
\* the job was interrupted with items left.
C20_Witness ==
    /\ Threaded
    /\ pc = "done"
    /\ interrupted
    /\ stopReq.reset
    /\ stopReq.rendered >= 1
    /\ stopReq.checks = stopReq.rendered
    /\ NumEv("render") = stopReq.rendered + 1
    /\ Len(items) > NumEv("render")

(***************************************************************************)
(* Properties of the per-zoom bounds and of the metatile bounds            *)
(***************************************************************************)

\* C21: for every extent inside the world that is not null and every zoom
\* range minZoom <= maxZoom, count_tiles lists at least one tile at every
\* zoom level of the range, tileset_ranges does not raise on an empty
\* per-zoom list, and the bounds it yields have rowMin <= rowMax and
\* colMin <= colMax within the tile range of each zoom level.
C21_NonEmptyZoomLevels ==
    (entry = "methods" /\ ~extents.null) =>
        /\ pc # "raised"
        /\ Counted =>
              /\ \A z \in zoom_ranges(minZoom, maxZoom) : tiles_at(tiles, z) # << >>
              /\ ~ranges_raises(tiles, minZoom, maxZoom)
        /\ pc \in {"ranged", "sized", "grouped"} =>
              /\ DOMAIN ranges = zoom_ranges(minZoom, maxZoom)
              /\ \A z \in DOMAIN ranges :
                    /\ 0 <= ranges[z][1]
                    /\ ranges[z][1] <= ranges[z][2]
                    /\ ranges[z][2] <= Pow2(z) - 1
                    /\ 0 <= ranges[z][3]
                    /\ ranges[z][3] <= ranges[z][4]
                    /\ ranges[z][4] <= Pow2(z) - 1

\* C21 witness: tileset_ranges has returned for an extent reduced to a point
\* and a zoom range of several levels.
C21_Witness ==
    /\ entry = "methods"
    /\ pc = "ranged"
    /\ ~extents.null
    /\ extents.xMin = extents.xMax
    /\ extents.yMin = extents.yMax
    /\ minZoom < maxZoom

\* C22: every metatile returned by count_metatiles at zoom z has bounds
\* inside the tile range of that zoom level: 0 <= rowMin <= rowMax <= 2^z - 1
\* and 0 <= colMin <= colMax <= 2^z - 1.
C22_AsStated ==
    Grouped =>
        \A i \in DOMAIN metatiles :
            LET e == metatiles[i].extents
                last == Pow2(metatiles[i].z) - 1
            IN  /\ 0 <= e[1] /\ e[1] <= e[2] /\ e[2] <= last
                /\ 0 <= e[3] /\ e[3] <= e[4] /\ e[4] <= last

(***************************************************************************)
(* Termination of run()                                                    *)
(***************************************************************************)

\* The steps of run(): a started thread (or the caller inside TileSet.run)
\* keeps executing its next statement; mutex.lock() blocks until the mutex
\* is free.
RunStep ==
    \/ run_reset_lock
    \/ run_reset_set
    \/ run_reset_unlock
    \/ set_writer
    \/ run_count_tiles
    \/ run_count_metatiles
    \/ render
    \/ write_tile
    \/ slice
    \/ run_progress
    \/ run_check_lock
    \/ run_check_read
    \/ run_check_unlock
    \/ run_check_test
    \/ finalize
    \/ run_emit

\* The steps of stop() once it holds the mutex: the flag is set and the
\* mutex released; wait() returns when run() has ended.
StopStep ==
    \/ stop_set
    \/ stop_unlock
    \/ stop_wait

\* The extents of the threaded jobs followed to their end: no overlap with
\* the world, and a point strictly inside the north-west tiles.
LiveExtents == { NullRectangle, Rect(1, 1, Grid - 1, Grid - 1) }

\* The threaded jobs followed to their end: processAlgorithm about to be
\* called, or a TilingThread constructed and not yet started; at most two
\* zoom levels, every destination, tiles or metatiles.
InitLive ==
    /\ InitJob
    /\ Threaded
    /\ extents \in LiveExtents
    /\ maxZoom <= 1
    /\ format = "PNG"
    /\ ~tmsArg

\* The job under the scheduler's guarantees: neither thread is suspended
\* forever while it has a statement to execute.  Whether processAlgorithm,
\* start() or stop() is ever called is left to the caller.
SpecLive ==
    /\ InitLive
    /\ [][NextJob]_vars
    /\ WF_vars(RunStep)
    /\ WF_vars(StopStep)

\* TilingThread.run has been entered.
RunBegun == Threaded /\ pc = "reset_lock"

\* A render or a write raised.
RenderOrWriteFailed == pc \in {"raised_render", "raised_write"}

\* run() has returned having emitted exactly one terminal signal, as the
\* last thing it did and after the one finalize: processFinished when no
\* item-boundary check observed the cancellation, processInterrupted
\* otherwise.
EndedWithOneSignal ==
    /\ pc = "done"
    /\ NumEv("processFinished") + NumEv("processInterrupted") = 1
    /\ NumEv("finalize") = 1
    /\ Len(log) >= 2
    /\ log[Len(log)].ev = outcome_signal(interrupted)
    /\ log[Len(log) - 1].ev = "finalize"

\* Under the scheduler's guarantees every run of TilingThread.run ends: it
\* is left by an exception, or it returns having emitted its one terminal
\* signal after finalize.
RunEndsOrRaises == RunBegun ~> (pc \in RaisedPcs \/ EndedWithOneSignal)

\* C23: every run of TilingThread.run in which no render or write fails
\* eventually terminates and emits exactly one terminal signal, after
\* writer.finalize has returned: processFinished when no cancellation was
\* observed at an item-boundary check, processInterrupted otherwise, never
\* both.
C23_AsStated == RunBegun ~> (RenderOrWriteFailed \/ EndedWithOneSignal)

=============================================================================
